---- MODULE Spec2Model ----
(***************************************************************************)
(* pyrevm: the EVM host object of src/src/evm.rs over the journaled state  *)
(* and the cache database of the revm engine it embeds.                    *)
(*                                                                         *)
(* The state is the EVM struct (evm.rs:24-45): context.db, the fields of   *)
(* context.journaled_state (state, journal, depth, logs), context.env,     *)
(* gas_limit, checkpoints and result.  Every #[pymethods] operation is one *)
(* action.  The engine's interpreter is a black box: the outcome of the    *)
(* code it runs is a nondeterministic choice, its bookkeeping around that  *)
(* outcome (validation, nonce bump, value transfer, frame checkpoint,      *)
(* finalize) is modelled as the handlers called from evm.rs:358-467 do it. *)
(*                                                                         *)
(* usize values (depth, journal indices) are kept as two's-complement      *)
(* residues: a negative integer -k stands for 2^64 - k, so that wrapping   *)
(* arithmetic of a build without overflow checks is plain integer          *)
(* arithmetic, and "== 0" is decided exactly.                              *)
(***************************************************************************)
EXTENDS Integers, Sequences, FiniteSets, TLC

\* ------------------------------------------------------------------ bounds
MaxBal == 1          \* balances and values given by the host range over 0..MaxBal
MaxOps == 4          \* the host performs at most MaxOps operations

\* --------------------------------------------------------------- constants
CALL_STACK_LIMIT == 1024   \* engine limit read by the top-level frame
InitialTxGas == 21000      \* engine's intrinsic gas of a transaction

Addr == {"0xaa", "0xbb"}
Callers == {"0xaa"}        \* the addresses the host calls and deploys from
\* The strings the host passes where an address is expected: one address in
\* lower case, the other in upper case, and a string that is too short to be
\* an address.
Malformed == {"0xb"}
AddrStr == {"0xaa", "0xBB"} \cup Malformed
CallerStr == Callers \cup Malformed
Slot == {0}
BlockNumber == {0}
NoCode == "0x"
Code == {NoCode, "0x60"}
Balance == 0..MaxBal
\* The configured gas_limit (default u64::MAX, evm.rs:51): any amount above
\* the intrinsic gas behaves alike, so one such amount stands for it.
GasHigh == InitialTxGas + 1
\* A gas limit below the intrinsic gas.
GasLow == InitialTxGas - 1

\* The AccountInfo values (types/info.rs: balance, nonce, code) the host
\* passes to insert_account_info.
\* revm::KECCAK_EMPTY, the hash of the empty byte sequence, and the content
\* hash of a code (Bytecode::hash_slow).
KeccakEmpty == "keccak()"
Hash(code) == IF code = NoCode THEN KeccakEmpty ELSE "keccak(0x60)"

\* AccountInfo::new (types/info.rs:35-62).  An Option is the empty set
\* (None) or a singleton (Some).  The balance defaults to zero, the code hash
\* to KECCAK_EMPTY whatever the code is; the code is kept as given, read as
\* the empty byte sequence when there is none (types/info.rs:22-29).
AccountInfoNew(balance, nonce, code_hash, code) ==
    [balance |-> IF balance = {} THEN 0 ELSE CHOOSE b \in balance : TRUE,
     nonce |-> nonce,
     code_hash |-> IF code_hash = {} THEN KeccakEmpty
                   ELSE CHOOSE h \in code_hash : TRUE,
     code |-> IF code = {} THEN NoCode ELSE CHOOSE x \in code : TRUE]

\* The account infos a host constructs: a balance, the default nonce, a code
\* or none, no code hash of its own.
InfoInputs ==
    {AccountInfoNew({b}, 0, {}, c) : b \in Balance, c \in {{}, {"0x60"}}}
\* AccountInfo::default()
DefaultInfo == [balance |-> 0, nonce |-> 0, code_hash |-> KeccakEmpty, code |-> NoCode]

\* ------------------------------------------------------- partial functions
Put(f, k, v) == [x \in (DOMAIN f) \cup {k} |-> IF x = k THEN v ELSE f[x]]
Del(f, k) == [x \in (DOMAIN f) \ {k} |-> f[x]]
Empty == [x \in {} |-> 0]

VARIABLES
    db,           \* context.db: CacheDB accounts, Addr -/-> DbAccount
    state,        \* context.journaled_state.state, Addr -/-> Account
    journal,      \* context.journaled_state.journal: Vec<Vec<JournalEntry>>
    depth,        \* context.journaled_state.depth (usize residue)
    logs,         \* context.journaled_state.logs.len()
    env,          \* context.env
    gas_limit,    \* EVM.gas_limit
    fork,         \* context.db is DB::Fork (TRUE) or DB::Memory (FALSE)
    block_hashes, \* context.db: the block numbers whose remote hash is cached
    contracts,    \* context.db: CacheDB contracts, code hash -/-> code
    remote_up,    \* environment: the remote source answers requests
    checkpoints,  \* EVM.checkpoints: JournalCheckpoint -/-> RevmCheckpoint
    result,       \* EVM.result: "None" or the last ExecutionResult
    overflow_checks, \* build profile: TRUE panics on overflow, FALSE wraps
    last,         \* the operation just performed and what it returned
    taken,        \* history: for each held token, what was readable when taken
    written,      \* history: the accounts and slots written so far
    ops           \* history: the number of operations performed

vars == <<db, state, journal, depth, logs, env, gas_limit, checkpoints,
          result, overflow_checks, last, taken, written, ops,
          fork, block_hashes, remote_up, contracts>>

\* The element of a one-element set: The({F(x) : x \in {v}}) is F(v), with v
\* computed once however often F reads it.
The(S) == CHOOSE x \in S : TRUE

\* =================================================================== CacheDB
\* revm's CacheDB<EmptyDBWrapper> behind DB::Memory (database.rs:15-29).
NewDbAccount(info) == [info |-> info, storage |-> Empty, account_state |-> "None"]

\* EmptyBasicRef as it would be over a database of funded accounts.
FundedBasicRef(a) == [DefaultInfo EXCEPT !.balance = MaxBal]

\* EmptyDBWrapper::basic_ref: always Some(AccountInfo::default()).
EmptyBasicRef(a) == DefaultInfo

\* EmptyDBWrapper::storage_ref: EmptyDB answers zero.
EmptyStorageRef(a, i) == 0

\* EthersDB behind DB::Fork (database.rs:31-40), pinned to one block: what
\* the remote source answers for an account, a slot and a block number.
RemoteBasicRef(a) == [DefaultInfo EXCEPT !.balance = 1]
RemoteStorageRef(a, i) == 2
RemoteBlockHashRef(number) == number + 2
\* EmptyDB::block_hash_ref: the hash of the number's decimal digits.
EmptyBlockHashRef(number) == number + 1

\* impl Database for DB (database.rs:58-88): the cache of the variant in use
\* asks its own backing database.
BasicRef(a) == IF fork THEN RemoteBasicRef(a) ELSE EmptyBasicRef(a)
StorageRef(a, i) == IF fork THEN RemoteStorageRef(a, i) ELSE EmptyStorageRef(a, i)
BlockHashRef(number) ==
    IF fork THEN RemoteBlockHashRef(number) ELSE EmptyBlockHashRef(number)

\* Down as it would be if a request the remote source does not answer were
\* given an answer all the same.
AnsweredAnyway == FALSE

\* A request to the backing database fails when it is the remote source and
\* the source does not answer.
Down == fork /\ ~remote_up

\* DB::new_memory: an empty cache over the empty database.
NewMemoryDb == Empty

\* DB::basic: a miss caches what the backing database answers.
\* Returns the database after the read and the info read.
DbBasic(d, a) ==
    LET d2 == IF a \in DOMAIN d THEN d ELSE Put(d, a, NewDbAccount(BasicRef(a)))
    IN  [db |-> d2, info |-> d2[a].info, some |-> d2[a].account_state # "NotExisting"]

\* DB::storage: a cached slot, else zero for a cleared account, else the
\* backing database's value, which is cached.
DbStorage(d, a, i) ==
    IF a \in DOMAIN d
    THEN IF i \in DOMAIN d[a].storage
         THEN [db |-> d, value |-> d[a].storage[i]]
         ELSE IF d[a].account_state \in {"StorageCleared", "NotExisting"}
              THEN [db |-> d, value |-> 0]
              ELSE LET v == StorageRef(a, i)
                   IN  [db |-> [d EXCEPT ![a].storage = Put(@, i, v)], value |-> v]
    ELSE LET v == StorageRef(a, i)
             acc == [NewDbAccount(BasicRef(a)) EXCEPT !.storage = Put(Empty, i, v)]
         IN  [db |-> Put(d, a, acc), value |-> v]

\* The keys a read would ask the backing database for: an account that is
\* not cached; a slot that is not cached, of an account that is not cached
\* or is cached without its storage being known to be empty.
DbBasicMisses(d, a) == a \notin DOMAIN d
DbStorageMisses(d, a, i) ==
    IF a \in DOMAIN d
    THEN /\ i \notin DOMAIN d[a].storage
         /\ d[a].account_state \notin {"StorageCleared", "NotExisting"}
    ELSE TRUE

\* DbInsertAccountInfo as it would be if the whole cached account were
\* replaced by a fresh one holding the info.
DbReplaceAccount(d, a, info) == Put(d, a, NewDbAccount(info))

\* CacheDB::insert_contract, as it leaves the info: an info with code and
\* the code hash KECCAK_EMPTY gets the content hash of its code.
InsertContract(info) ==
    IF info.code # NoCode /\ info.code_hash = KeccakEmpty
    THEN [info EXCEPT !.code_hash = Hash(info.code)]
    ELSE info

\* CacheDB::new: the contracts hold the empty code under the hash of the
\* empty byte sequence and under the zero hash.
ZeroHash == "0x00"
NewContracts == [h \in {KeccakEmpty, ZeroHash} |-> NoCode]

\* CacheDB::insert_contract, as it leaves the contracts: the code of an info
\* that has some is kept under the info's code hash unless the hash already
\* has a code.
ContractsInsert(cs, info) ==
    IF info.code = NoCode \/ InsertContract(info).code_hash \in DOMAIN cs
    THEN cs
    ELSE Put(cs, InsertContract(info).code_hash, info.code)

\* DatabaseCommit::commit (database.rs:90-97), as it leaves the contracts:
\* insert_contract of every touched account of the diff.
RECURSIVE CommitContracts(_, _)
CommitContracts(cs, changes) ==
    IF DOMAIN changes = {} THEN cs
    ELSE LET a == CHOOSE x \in DOMAIN changes : TRUE
         IN  CommitContracts(IF changes[a].touched
                             THEN ContractsInsert(cs, changes[a].info) ELSE cs,
                             Del(changes, a))

\* DB::insert_account_info: replaces the info, keeps storage and state.
DbInsertAccountInfo(d, a, info) ==
    IF a \in DOMAIN d
    THEN [d EXCEPT ![a].info = InsertContract(info)]
    ELSE Put(d, a, NewDbAccount(InsertContract(info)))

\* One account of a state diff applied by DatabaseCommit::commit.
CommitAccount(d, a, acc) ==
    IF ~acc.touched
    THEN d
    ELSE LET old == IF a \in DOMAIN d THEN d[a] ELSE NewDbAccount(DefaultInfo)
             kept == IF acc.created THEN Empty ELSE old.storage
             st == IF acc.created \/ old.account_state = "StorageCleared"
                   THEN "StorageCleared" ELSE "Touched"
             merged == [i \in (DOMAIN kept) \cup (DOMAIN acc.storage) |->
                          IF i \in DOMAIN acc.storage THEN acc.storage[i] ELSE kept[i]]
         IN  Put(d, a, [info |-> InsertContract(acc.info), storage |-> merged,
                        account_state |-> st])

RECURSIVE CommitAll(_, _, _)
CommitAll(d, changes, todo) ==
    IF todo = {} THEN d
    ELSE LET a == CHOOSE x \in todo : TRUE
         IN  CommitAll(CommitAccount(d, a, changes[a]), changes, todo \ {a})

\* DB::commit (database.rs:90-97): every touched account of the diff.
DbCommit(d, changes) == CommitAll(d, changes, DOMAIN changes)

\* ============================================================ JournaledState
\* The execution context as one value: the fields an operation reads and
\* writes through self.context.
Ctx == [db |-> db, state |-> state, journal |-> journal, depth |-> depth,
        logs |-> logs, env |-> env]

NewAccount(info) == [info |-> info, storage |-> Empty, touched |-> FALSE, created |-> FALSE]

AccountLoaded(a) == [kind |-> "AccountLoaded", address |-> a]
AccountTouched(a) == [kind |-> "AccountTouched", address |-> a]

\* journal.last_mut().unwrap().push(entry)
PushEntry(j, e) == [j EXCEPT ![Len(j)] = Append(@, e)]

\* EvmContext::load_account: an account already in the state is returned as
\* it is; otherwise it is read from the database and its loading journaled.
LoadAccount(c, a) ==
    IF a \in DOMAIN c.state
    THEN c
    ELSE LET r == DbBasic(c.db, a)
             acc == IF r.some THEN NewAccount(r.info) ELSE NewAccount(DefaultInfo)
         IN  [c EXCEPT !.db = r.db,
                       !.state = Put(c.state, a, acc),
                       !.journal = PushEntry(c.journal, AccountLoaded(a))]

\* load_account asks the database only for an account not in the state.
LoadMisses(c, a) == a \notin DOMAIN c.state /\ DbBasicMisses(c.db, a)

\* JournaledState::touch: marks a state account touched, journaled once.
Touch(c, a) ==
    IF a \in DOMAIN c.state /\ ~c.state[a].touched
    THEN [c EXCEPT !.state[a].touched = TRUE,
                   !.journal = PushEntry(c.journal, AccountTouched(a))]
    ELSE c

\* JournaledState::checkpoint: the revm checkpoint, depth + 1, a new entry set.
RevmCheckpoint(c) == [log_i |-> c.logs, journal_i |-> Len(c.journal)]
Checkpoint(c) == [c EXCEPT !.depth = c.depth + 1, !.journal = Append(c.journal, <<>>)]

\* Undo of one journal entry on the state.
RevertEntry(s, e) ==
    CASE e.kind = "AccountLoaded" -> Del(s, e.address)
      [] e.kind = "AccountTouched" ->
            IF e.address \in DOMAIN s THEN [s EXCEPT ![e.address].touched = FALSE] ELSE s
      [] OTHER -> s

\* journal_revert: the entries of one set, last first.
RECURSIVE JournalRevert(_, _)
JournalRevert(s, entries) ==
    IF entries = <<>> THEN s
    ELSE JournalRevert(RevertEntry(s, entries[Len(entries)]),
                       SubSeq(entries, 1, Len(entries) - 1))

\* The last n entry sets of the journal, the last set first.
RECURSIVE RevertSets(_, _, _)
RevertSets(s, j, n) ==
    IF n = 0 \/ j = <<>> THEN s
    ELSE RevertSets(JournalRevert(s, j[Len(j)]), SubSeq(j, 1, Len(j) - 1), n - 1)

\* JournaledState::checkpoint_revert.  depth is decremented first; the number
\* of sets to undo is the usize difference leng - journal_i, which underflows
\* when the token's journal_i is beyond the journal: a build with overflow
\* checks panics there, one without wraps and undoes every set, each set
\* being taken (emptied) as it is undone.
RevertUnderflows(c, cp) == cp.journal_i > Len(c.journal)

CheckpointRevert(c, cp) ==
    LET leng == Len(c.journal)
        n == IF RevertUnderflows(c, cp) THEN leng ELSE leng - cp.journal_i
        emptied == [k \in 1..leng |-> IF k > leng - n THEN <<>> ELSE c.journal[k]]
        keep == IF cp.journal_i < leng THEN cp.journal_i ELSE leng
    IN  [c EXCEPT !.depth = c.depth - 1,
                  !.state = RevertSets(c.state, c.journal, n),
                  !.logs = IF cp.log_i < c.logs THEN cp.log_i ELSE c.logs,
                  !.journal = SubSeq(emptied, 1, keep)]

\* JournaledState::checkpoint_commit is "self.depth -= 1" and nothing else.
CheckpointCommit(c) == [c EXCEPT !.depth = c.depth - 1]

\* What a host reads: basic/get_balance go through the journaled state and
\* fall back to the database, storage goes to the database.
ReadInfo(c, a) == LoadAccount(c, a).state[a].info
ReadStorage(c, a, i) == DbStorage(c.db, a, i).value
View(c) == [info |-> [a \in Addr |-> ReadInfo(c, a)],
            storage |-> [a \in Addr |-> [i \in Slot |-> ReadStorage(c, a, i)]]]

\* ================================================================ host object
NoResult == [status |-> "None", reason |-> "None"]
Tokens == [log_i : {0}, journal_i : 1..MaxOps]

\* utils::addr (utils.rs:10-13): the string parsed as hexadecimal digits of
\* either case; a string that does not parse is a TypeError.
ToLower(str) == IF str = "0xBB" THEN "0xbb" ELSE str
\* addr as it would be if a string that does not parse were read as the
\* zero address.
addrOrZero(str) ==
    IF ToLower(str) \in Addr
    THEN [err |-> "none", address |-> ToLower(str)]
    ELSE [err |-> "none", address |-> "0x00"]

addr(str) ==
    IF ToLower(str) \in Addr
    THEN [err |-> "none", address |-> ToLower(str)]
    ELSE [err |-> "TypeError", address |-> "0x00"]

\* How the last operation ended: op is its name, err "none" or the exception
\* raised, cause what the exception's message reports, val the number
\* returned (0 when the operation returns none).
RetVal(op, err, cause, val) == [op |-> op, err |-> err, cause |-> cause, val |-> val]
Ret(op, err, cause) == RetVal(op, err, cause, 0)

SetCtx(c) ==
    /\ db' = c.db
    /\ state' = c.state
    /\ journal' = c.journal
    /\ depth' = c.depth
    /\ logs' = c.logs
    /\ env' = c.env

\* History kept for the properties only: the events seen by each held token.
Seen(t, ev) == [k \in DOMAIN t |-> [t[k] EXCEPT !.since = @ \cup {ev}]]

\* History kept for the properties only: the accounts and the slots an
\* operation writes are added to those written so far.
Writes(accounts, slots) ==
    written' = [accounts |-> written.accounts \cup accounts,
                slots |-> written.slots \cup slots]
SlotsOf(a) == {<<a, i>> : i \in Slot}

\* Env::default(), as far as the model reads it.  An Option is the empty set
\* (None) or a singleton (Some).
DefaultEnv == [caller |-> "0x00", transact_to |-> "0x00", data |-> NoCode,
               value |-> 0, nonce |-> {}, gas_price |-> 0,
               gas_priority_fee |-> {}, basefee |-> 0,
               block_gas_limit |-> GasHigh, tx_gas_limit |-> GasHigh]

\* An environment the host supplies at construction (types/evm_env.rs): a
\* gas price, a priority fee, a base fee, gas limits and a transaction nonce
\* of its own.
CustomEnv == [DefaultEnv EXCEPT !.nonce = {0}, !.gas_price = 2,
                                !.gas_priority_fee = {1}, !.basefee = 1,
                                !.block_gas_limit = GasLow, !.tx_gas_limit = GasLow]

\* One more operation of the host, while its budget lasts.
Tick == ops < MaxOps /\ ops' = ops + 1

\* EVM::new (evm.rs:52-76) with no fork_url: an in-memory database, the given
\* environment, the given gas limit, no checkpoint, no result.
Init ==
    /\ db = NewMemoryDb
    /\ state = Empty
    /\ journal = << <<>> >>
    /\ depth = 0
    /\ logs = 0
    /\ env = DefaultEnv
    /\ gas_limit = GasHigh
    /\ checkpoints = Empty
    /\ result = NoResult
    /\ overflow_checks \in BOOLEAN
    /\ last = Ret("new", "none", "none")
    /\ taken = Empty
    /\ written = [accounts |-> {}, slots |-> {}]
    /\ ops = 0
    /\ fork = FALSE
    /\ block_hashes = {}
    /\ contracts = NewContracts
    /\ remote_up = TRUE

\* EVM::snapshot (evm.rs:78-85)
Snapshot ==
    /\ Tick
    /\ UNCHANGED written
    /\ LET checkpoint == [log_i |-> logs, journal_i |-> Len(journal)]
       IN  /\ checkpoints' = Put(checkpoints, checkpoint, RevmCheckpoint(Ctx))
           /\ SetCtx(Checkpoint(Ctx))
           /\ last' = Ret("snapshot", "none", "none")
           /\ taken' = Put(Seen(taken, "snapshot"), checkpoint,
                           [view |-> View(Ctx), since |-> {}])
    /\ UNCHANGED <<gas_limit, result, overflow_checks, remote_up,
                   fork, block_hashes, contracts>>

\* EVM::revert (evm.rs:87-98)
Revert(checkpoint) ==
    /\ Tick
    /\ UNCHANGED written
    /\ IF depth = 0
       THEN /\ last' = Ret("revert", "OverflowError", "No checkpoint to revert to")
            /\ UNCHANGED <<db, state, journal, depth, logs, env, checkpoints, taken>>
       ELSE IF checkpoint \in DOMAIN checkpoints
       THEN /\ checkpoints' = Del(checkpoints, checkpoint)
            /\ taken' = Seen(Del(taken, checkpoint), "revert")
            /\ IF overflow_checks /\ RevertUnderflows(Ctx, checkpoints[checkpoint])
               THEN /\ depth' = depth - 1
                    /\ last' = Ret("revert", "PanicException", "attempt to subtract with overflow")
                    /\ UNCHANGED <<db, state, journal, logs, env>>
               ELSE /\ SetCtx(CheckpointRevert(Ctx, checkpoints[checkpoint]))
                    /\ last' = Ret("revert", "none", "none")
       ELSE /\ last' = Ret("revert", "KeyError", "Invalid checkpoint")
            /\ UNCHANGED <<db, state, journal, depth, logs, env, checkpoints, taken>>
    /\ UNCHANGED <<gas_limit, result, overflow_checks, remote_up,
                   fork, block_hashes, contracts>>

\* EVM::commit (evm.rs:100-102): checkpoint_commit alone.  At depth 0 the
\* decrement underflows: a panic with overflow checks, a wrap without.
Commit ==
    /\ Tick
    /\ UNCHANGED written
    /\ IF depth = 0 /\ overflow_checks
       THEN /\ last' = Ret("commit", "PanicException", "attempt to subtract with overflow")
            /\ UNCHANGED <<db, state, journal, depth, logs, env>>
       ELSE /\ SetCtx(CheckpointCommit(Ctx))
            /\ last' = Ret("commit", "none", "none")
    /\ taken' = Seen(taken, "commit")
    /\ UNCHANGED <<gas_limit, checkpoints, result, overflow_checks, remote_up,
                   fork, block_hashes, contracts>>

\* Every operation that takes an address parses it first (addr(..)?): a
\* string that does not parse ends the operation with the parse error.
BadAddress(op) == Ret(op, "TypeError", "invalid address")

\* A request the remote source did not answer ends the operation with the
\* database's error, raised as RuntimeError (map_err(pyerr)?, utils.rs:28-31).
FetchFailed(op) == Ret(op, "RuntimeError", "Database")

\* EVM::basic (evm.rs:105-108)
Basic(address) ==
    /\ Tick
    /\ UNCHANGED written
    /\ \E a \in {addr(address)} :
          IF a.err # "none"
          THEN /\ last' = BadAddress("basic")
               /\ UNCHANGED <<db, state, journal, depth, logs, env>>
          ELSE IF Down /\ LoadMisses(Ctx, a.address)
          THEN /\ last' = FetchFailed("basic")
               /\ UNCHANGED <<db, state, journal, depth, logs, env>>
          ELSE /\ SetCtx(LoadAccount(Ctx, a.address))
               /\ last' = RetVal("basic", "none", "none",
                                 ReadInfo(Ctx, a.address).balance)
    /\ UNCHANGED <<gas_limit, checkpoints, result, overflow_checks, remote_up,
                   fork, block_hashes, contracts, taken>>

\* EVM::storage (evm.rs:111-113)
Storage(address, index) ==
    /\ Tick
    /\ UNCHANGED written
    /\ \E a \in {addr(address)} :
          IF a.err # "none"
          THEN /\ last' = BadAddress("storage")
               /\ UNCHANGED db
          ELSE IF Down /\ DbStorageMisses(db, a.address, index)
          THEN /\ last' = FetchFailed("storage")
               /\ UNCHANGED db
          ELSE \E r \in {DbStorage(db, a.address, index)} :
                  /\ db' = r.db
                  /\ last' = RetVal("storage", "none", "none", r.value)
    /\ UNCHANGED <<state, journal, depth, logs, env, gas_limit, checkpoints,
                   result, overflow_checks, taken, fork, block_hashes, remote_up,
                   contracts>>

\* EVM::block_hash (evm.rs:116-118): a hash the cache holds, else the
\* backing database's, which is cached.  Hashes of the empty database are
\* computed from the number, so only remote ones are recorded as cached.
BlockHash(number) ==
    /\ Tick
    /\ IF Down /\ number \notin block_hashes
       THEN /\ last' = FetchFailed("block_hash")
            /\ UNCHANGED block_hashes
       ELSE /\ last' = RetVal("block_hash", "none", "none", BlockHashRef(number))
            /\ block_hashes' = IF fork THEN block_hashes \cup {number} ELSE block_hashes
    /\ UNCHANGED <<db, state, journal, depth, logs, env, gas_limit, checkpoints,
                   result, overflow_checks, taken, written, fork, remote_up,
                   contracts>>

\* EVM::insert_account_info (evm.rs:121-128): the database alone.
InsertAccountInfo(address, info) ==
    /\ Tick
    /\ \E a \in {addr(address)} :
          IF a.err # "none"
          THEN /\ last' = BadAddress("insert_account_info")
               /\ UNCHANGED <<db, written, contracts>>
          ELSE /\ db' = DbInsertAccountInfo(db, a.address, info)
               /\ contracts' = ContractsInsert(contracts, info)
               /\ last' = Ret("insert_account_info", "none", "none")
               /\ Writes({a.address}, {})
    /\ UNCHANGED <<state, journal, depth, logs, env, gas_limit, checkpoints,
                   result, overflow_checks, taken, fork, block_hashes, remote_up>>

\* SetBalanceLoaded as it would be if the balance went to the database alone.
SetBalanceDbOnly(c1, address, balance) ==
    [c1 EXCEPT !.db = DbInsertAccountInfo(c1.db, address,
                         [c1.state[address].info EXCEPT !.balance = balance])]

\* EVM::set_balance (evm.rs:131-142): the loaded account's balance is
\* assigned in place, its info copied to the database, the account put back
\* in the state and touched.  No journal entry records the old balance.
SetBalanceLoaded(c1, address, balance) ==
    LET account == [c1.state[address] EXCEPT !.info.balance = balance]
    IN  [c1 EXCEPT !.db = DbInsertAccountInfo(c1.db, address, account.info),
                   !.state = Put(c1.state, address, account)]

SetBalanceCtx(c, address, balance) ==
    The({Touch(c2, address) :
            c2 \in {SetBalanceLoaded(c1, address, balance) :
                       c1 \in {LoadAccount(c, address)}}})

SetBalance(address, balance) ==
    /\ Tick
    /\ \E a \in {addr(address)} :
          IF a.err # "none"
          THEN /\ last' = BadAddress("set_balance")
               /\ UNCHANGED <<db, state, journal, depth, logs, env, written, contracts>>
          ELSE IF Down /\ LoadMisses(Ctx, a.address)
          THEN /\ last' = FetchFailed("set_balance")
               /\ UNCHANGED <<db, state, journal, depth, logs, env, written, contracts>>
          ELSE /\ SetCtx(SetBalanceCtx(Ctx, a.address, balance))
               /\ contracts' = ContractsInsert(contracts, ReadInfo(Ctx, a.address))
               /\ last' = Ret("set_balance", "none", "none")
               /\ Writes({a.address}, {})
    /\ UNCHANGED <<gas_limit, checkpoints, result, overflow_checks, remote_up,
                   fork, block_hashes, taken>>

\* EVM::get_balance (evm.rs:145-148)
GetBalance(address) ==
    /\ Tick
    /\ UNCHANGED written
    /\ \E a \in {addr(address)} :
          IF a.err # "none"
          THEN /\ last' = BadAddress("get_balance")
               /\ UNCHANGED <<db, state, journal, depth, logs, env>>
          ELSE IF Down /\ LoadMisses(Ctx, a.address)
          THEN /\ last' = FetchFailed("get_balance")
               /\ UNCHANGED <<db, state, journal, depth, logs, env>>
          ELSE /\ SetCtx(LoadAccount(Ctx, a.address))
               /\ last' = RetVal("get_balance", "none", "none",
                                 ReadInfo(Ctx, a.address).balance)
    /\ UNCHANGED <<gas_limit, checkpoints, result, overflow_checks, remote_up,
                   fork, block_hashes, contracts, taken>>

\* ===================================================== transaction runner
\* BuildTestEnv as it would be if the ambient gas price, priority fee and
\* base fee were kept.
BuildTestEnvKeepsFees(caller, transact_to, data, value) ==
    [env EXCEPT !.caller = caller, !.transact_to = transact_to, !.data = data,
                !.value = value,
                !.block_gas_limit = gas_limit, !.tx_gas_limit = gas_limit]

\* EVM::build_test_env (evm.rs:245-274): the ambient environment with the
\* operation's caller, target, data and value, gas price and base fee zero,
\* no priority fee, and both gas limits set to the configured gas_limit;
\* tx.nonce is kept.
BuildTestEnv(caller, transact_to, data, value) ==
    [env EXCEPT !.caller = caller, !.transact_to = transact_to, !.data = data,
                !.value = value, !.gas_price = 0, !.gas_priority_fee = {},
                !.basefee = 0,
                !.block_gas_limit = gas_limit, !.tx_gas_limit = gas_limit]

\* handler.validation().env (evm.rs:359)
ValidateEnv(e) ==
    IF \E fee \in e.gas_priority_fee : fee > e.gas_price
    THEN "PriorityFeeGreaterThanMaxFee"
    ELSE IF e.gas_price < e.basefee THEN "GasPriceLessThanBasefee"
    ELSE IF e.tx_gas_limit > e.block_gas_limit THEN "CallerGasLimitMoreThanBlock"
    ELSE "none"

\* handler.validation().initial_tx_gas (evm.rs:360-364)
ValidateInitialTxGas(e) ==
    IF InitialTxGas > e.tx_gas_limit THEN "CallGasCostMoreThanGasLimit" ELSE "none"

\* handler.validation().tx_against_state (evm.rs:365-368): the caller is
\* loaded; it must have no code, the nonce the transaction names if it names
\* one, and a balance covering the value (the gas price being zero).
ValidateTxAgainstState(c) ==
    LET info == ReadInfo(c, c.env.caller)
    IN  IF info.code # NoCode THEN "RejectCallerWithCode"
        ELSE IF c.env.nonce # {} /\ c.env.nonce # {info.nonce} THEN "NonceMismatch"
        ELSE IF c.env.value > info.balance THEN "LackOfFundForMaxFee"
        ELSE "none"

Validation(c) ==
    IF ValidateEnv(c.env) # "none" THEN ValidateEnv(c.env)
    ELSE IF ValidateInitialTxGas(c.env) # "none" THEN ValidateInitialTxGas(c.env)
    ELSE IF Down /\ LoadMisses(c, c.env.caller) THEN "Database"
    ELSE ValidateTxAgainstState(c)

\* The beneficiary of the block (env.block.coinbase, the zero address of
\* Env::default()), loaded before the run and touched by the reward.
Coinbase == "0x00"

\* pre_execution().load_accounts (evm.rs:379)
LoadAccounts(c) == LoadAccount(c, Coinbase)


\* pre_execution().deduct_caller (evm.rs:386): the caller is touched and,
\* for a call, its nonce is bumped (a creation bumps it in the create frame).
DeductCaller(c) ==
    LET a == c.env.caller
        c1 == LoadAccount(c, a)
        bump == IF c.env.transact_to = "Create" THEN 0 ELSE 1
    IN  [c1 EXCEPT !.state[a].info.nonce = @ + bump, !.state[a].touched = TRUE]

\* JournaledState::transfer: both accounts touched, the value moved.
Transfer(s, from, to, value) ==
    LET s1 == [s EXCEPT ![from].touched = TRUE, ![from].info.balance = @ - value]
    IN  [s1 EXCEPT ![to].touched = TRUE, ![to].info.balance = @ + value]

\* The top-level frame refuses to start past the call stack limit; depth is
\* read as the unsigned value it is.
DepthExceedsLimit(d) == d < 0 \/ d > CALL_STACK_LIMIT

\* What the code run by the interpreter does: the interpreter is a black
\* box, so a run picks one of these.
Programs ==
    [op : {"stop", "return", "revert", "halt"}, slot : {0}, value : {0}]
        \cup [op : {"sstore"}, slot : Slot, value : {1}]

\* An account without code runs nothing: its call stops at once.
Stop == [op |-> "stop", slot |-> 0, value |-> 0]
CodeRun(code) == IF code = NoCode THEN {Stop} ELSE Programs \ {Stop}
\* Init code: returns runtime code, returns none, reverts or halts.
InitPrograms == {p \in Programs : p.op # "sstore"}

Outcome(status, reason) == [status |-> status, reason |-> reason]

\* execution().call and the frame loop (evm.rs:393-407): the target is
\* loaded and touched, the value transferred inside the frame's checkpoint;
\* code that reverts or halts has the frame's changes undone.
CallFrame(c1, prog) ==
    LET caller == c1.env.caller
        to == c1.env.transact_to
        s2 == IF c1.env.value = 0
              THEN [c1.state EXCEPT ![to].touched = TRUE]
              ELSE Transfer(c1.state, caller, to, c1.env.value)
    IN  IF c1.state[to].info.code = NoCode
        THEN [state |-> s2, db |-> c1.db, outcome |-> Outcome("Success", "Stop")]
        ELSE CASE prog.op = "stop" ->
                    [state |-> s2, db |-> c1.db, outcome |-> Outcome("Success", "Stop")]
               [] prog.op = "return" ->
                    [state |-> s2, db |-> c1.db, outcome |-> Outcome("Success", "Return")]
               [] prog.op = "sstore" ->
                    [state |-> [s2 EXCEPT ![to].storage = Put(@, prog.slot, prog.value)],
                     db |-> DbStorage(c1.db, to, prog.slot).db,
                     outcome |-> Outcome("Success", "Stop")]
               [] prog.op = "revert" ->
                    [state |-> c1.state, db |-> c1.db, outcome |-> Outcome("Revert", "Revert")]
               [] OTHER ->
                    [state |-> c1.state, db |-> c1.db, outcome |-> Outcome("Halt", "OutOfGas")]

ExecCall(c, prog) ==
    IF DepthExceedsLimit(c.depth)
    THEN [state |-> c.state, db |-> c.db, outcome |-> Outcome("Halt", "CallTooDeep")]
    ELSE The({CallFrame(c1, prog) : c1 \in {LoadAccount(c, c.env.transact_to)}})

\* execution().create and the frame loop (evm.rs:397-407): the deployer's
\* nonce is bumped, the new address loaded; an address with code or a nonce
\* collides; otherwise the account is created with nonce 1, funded inside
\* the frame's checkpoint, and gets the code the init code returns.
CreateFrame(c1, created, prog) ==
    LET caller == c1.env.caller
        old == c1.state[created].info
        s2 == Transfer([c1.state EXCEPT ![created].created = TRUE,
                                        ![created].info.nonce = 1],
                       caller, created, c1.env.value)
        code == IF prog.op = "return" THEN "0x60" ELSE NoCode
    IN  IF old.code # NoCode \/ old.nonce # 0
        THEN [state |-> c1.state, db |-> c1.db,
              outcome |-> Outcome("Halt", "CreateCollision")]
        ELSE CASE prog.op \in {"stop", "return"} ->
                    [state |-> [s2 EXCEPT ![created].info.code = code,
                                          ![created].info.code_hash = Hash(code)],
                     db |-> c1.db, outcome |-> Outcome("Success", "Return")]
               [] prog.op = "sstore" ->
                    [state |-> [s2 EXCEPT ![created].storage = Put(@, prog.slot, prog.value)],
                     db |-> c1.db, outcome |-> Outcome("Success", "Return")]
               [] prog.op = "revert" ->
                    [state |-> c1.state, db |-> c1.db, outcome |-> Outcome("Revert", "Revert")]
               [] OTHER ->
                    [state |-> c1.state, db |-> c1.db, outcome |-> Outcome("Halt", "OutOfGas")]

ExecCreate(c, created, prog) ==
    IF DepthExceedsLimit(c.depth)
    THEN [state |-> c.state, db |-> c.db, outcome |-> Outcome("Halt", "CallTooDeep")]
    ELSE The({CreateFrame(c1, created, prog) :
                c1 \in {LoadAccount([c EXCEPT !.state[c.env.caller].info.nonce = @ + 1],
                                    created)}})

\* EvmContext::new(DB::new_memory()): the placeholder run_env leaves in
\* self.context while the engine owns the real context (evm.rs:324).
NewContext == [db |-> NewMemoryDb, state |-> Empty, journal |-> << <<>> >>,
               depth |-> 0, logs |-> 0, env |-> DefaultEnv]

\* journaled_state.finalize() (evm.rs:440): the state is taken out as the
\* diff, the journal reset to one empty set, depth to 0, the logs taken.
Finalize(c, x) ==
    [c EXCEPT !.db = x.db, !.state = Empty, !.journal = << <<>> >>,
              !.depth = 0, !.logs = 0]

\* The requests a run makes after validation that the remote source would
\* have to answer: the beneficiary, the target of the first frame, and the
\* slot an SSTORE loads first.
RunMisses(c, created, prog) ==
    LET target == IF c.env.transact_to = "Create" THEN created ELSE c.env.transact_to
    IN  \/ LoadMisses(c, Coinbase)
        \/ /\ ~DepthExceedsLimit(c.depth)
           /\ \/ LoadMisses(c, target) /\ target # c.env.caller
              \/ prog.op = "sstore" /\ DbStorageMisses(c.db, target, prog.slot)

\* EVM::run_env with EVM::call, transact_preverified_inner and output
\* (evm.rs:319-467).  The environment is stored, the context moved out; a
\* validation error leaves through "?" before the context is put back, so
\* self.context stays the placeholder and self.result is not assigned.
\* Otherwise the context comes back finalized and the outcome is recorded.
\* The first frame (evm.rs:393-402): a call or a creation.
Execution(cd, created, prog) ==
    IF cd.env.transact_to = "Create" THEN ExecCreate(cd, created, prog)
    ELSE ExecCall(cd, prog)

\* EVM::output (evm.rs:428-467): the outcome with the finalized context.
Output(cd, x) ==
    [err |-> "none", ctx |-> Finalize(cd, x), outcome |-> x.outcome,
     diff |-> [x.state EXCEPT ![Coinbase].touched = TRUE]]

\* EVM::transact_preverified_inner (evm.rs:374-424)
TransactPreverifiedInner(c, created, prog) ==
    The({Output(p[1], p[2]) :
            p \in {<<cd, Execution(cd, created, prog)>> :
                     cd \in {DeductCaller(LoadAccounts(c))}}})

\* EVM::call (evm.rs:358-372): validation, then the run.
Call(c, created, prog) ==
    The({IF verr # "none"
         THEN [err |-> verr, ctx |-> c, outcome |-> NoResult, diff |-> Empty]
         ELSE IF Down /\ RunMisses(c, created, prog)
         THEN [err |-> "Database", ctx |-> c, outcome |-> NoResult, diff |-> Empty]
         ELSE TransactPreverifiedInner(c, created, prog) :
            verr \in {Validation(c)}})

RunEnv(c0, e, created, prog) ==
    The({IF r.err # "none" THEN [r EXCEPT !.ctx = NewContext] ELSE r :
            r \in {Call(c, created, prog) : c \in {[c0 EXCEPT !.env = e]}}})

\* RunRet as it would be if an outcome other than Success were handed back as
\* a value instead of being raised.
RunRetReturnsOutcome(op, r) ==
    IF r.err # "none" THEN Ret(op, "RuntimeError", r.err) ELSE Ret(op, "none", "none")

\* What call_raw_with_env / deploy_with_env make of a run (evm.rs:278-317):
\* a validation error is passed on, an outcome other than Success is raised
\* as an error carrying the outcome.
RunRet(op, r) ==
    IF r.err # "none" THEN Ret(op, "RuntimeError", r.err)
    ELSE IF r.outcome.status # "Success" THEN Ret(op, "RuntimeError", r.outcome.status)
    ELSE Ret(op, "none", "none")

\* The errors validation raises, and the event a run leaves in the history.
ValidationErrors == {"PriorityFeeGreaterThanMaxFee",
                     "CallerGasLimitMoreThanBlock", "GasPriceLessThanBasefee",
                     "CallGasCostMoreThanGasLimit", "RejectCallerWithCode",
                     "NonceMismatch", "LackOfFundForMaxFee"}
RunEvent(ret) ==
    IF ret.cause \in ValidationErrors \cup {"Database"} THEN "run_invalid" ELSE "run"

\* What the three run operations share once the addresses are parsed: the
\* outcome is recorded, the context put back, a successful diff committed
\* when the operation commits.
RunDone(op, r, committing) ==
    /\ last' = RunRet(op, r)
    /\ result' = IF r.err = "none" THEN r.outcome ELSE result
    /\ IF committing /\ last'.err = "none"
       THEN SetCtx([r.ctx EXCEPT !.db = DbCommit(r.ctx.db, r.diff)])
       ELSE SetCtx(r.ctx)
    /\ IF r.err # "none"
       THEN fork' = FALSE /\ block_hashes' = {} /\ contracts' = NewContracts
       ELSE /\ UNCHANGED <<fork, block_hashes>>
            /\ contracts' = IF committing /\ last'.err = "none"
                             THEN CommitContracts(contracts, r.diff)
                             ELSE contracts
    /\ taken' = Seen(taken, RunEvent(last'))

RunRefused(op) ==
    /\ last' = BadAddress(op)
    /\ UNCHANGED <<db, state, journal, depth, logs, env, result, taken, written,
                   fork, block_hashes, contracts>>

\* EVM::call_raw (evm.rs:171-184): the diff is returned, not committed.
CallRaw(caller, to, value, prog) ==
    /\ Tick
    /\ \E c \in {addr(caller)}, t \in {addr(to)} :
          IF c.err # "none" \/ t.err # "none"
          THEN RunRefused("call_raw")
          ELSE /\ \E r \in {RunEnv(Ctx, BuildTestEnv(c.address, t.address, NoCode, value),
                                    t.address, prog)} :
                      RunDone("call_raw", r, FALSE)
               /\ UNCHANGED written
    /\ UNCHANGED <<gas_limit, checkpoints, overflow_checks, remote_up>>

\* EVM::call_raw_committing (evm.rs:152-168): the diff of a successful call
\* is committed to the database.
CallRawCommitting(caller, to, value, prog) ==
    /\ Tick
    /\ \E c \in {addr(caller)}, t \in {addr(to)} :
          IF c.err # "none" \/ t.err # "none"
          THEN RunRefused("call_raw_committing")
          ELSE /\ \E r \in {RunEnv(Ctx, BuildTestEnv(c.address, t.address, NoCode, value),
                                    t.address, prog)} :
                      RunDone("call_raw_committing", r, TRUE)
               /\ IF last'.err = "none"
                  THEN Writes({c.address, t.address}, SlotsOf(t.address))
                  ELSE UNCHANGED written
    /\ UNCHANGED <<gas_limit, checkpoints, overflow_checks, remote_up>>

\* EVM::deploy (evm.rs:187-203): the diff of a successful creation is
\* committed to the database.  The code given is some init code; what it
\* does is the program.
Deploy(deployer, value, created, prog) ==
    /\ Tick
    /\ \E c \in {addr(deployer)} :
          IF c.err # "none"
          THEN RunRefused("deploy")
          ELSE /\ \E r \in {RunEnv(Ctx, BuildTestEnv(c.address, "Create", "0x60", value),
                                    created, prog)} :
                      RunDone("deploy", r, TRUE)
               /\ IF last'.err = "none"
                  THEN Writes({c.address, created}, SlotsOf(created))
                  ELSE UNCHANGED written
    /\ UNCHANGED <<gas_limit, checkpoints, overflow_checks, remote_up>>

\* The programs a call may run: what the code at the target does.
ProgramsAt(to) ==
    IF addr(to).err = "none" THEN CodeRun(ReadInfo(Ctx, addr(to).address).code)
    ELSE {Stop}

\* The address a deployment creates: another address than the deployer's.
CreatedBy(deployer) ==
    IF deployer \in Malformed THEN {"0xbb"} ELSE Addr \ {addr(deployer).address}

\* The arguments the host passes.  An operation refuses a malformed address
\* whatever its other arguments are, so one choice of them goes with it.
InsertInputs ==
    {x \in AddrStr \X InfoInputs : x[1] \in Malformed => x[2] = DefaultInfo}
SetBalanceInputs == {x \in AddrStr \X Balance : x[1] \in Malformed => x[2] = 0}
CallInputs ==
    {x \in CallerStr \X AddrStr \X Balance :
        (x[1] \in Malformed \/ x[2] \in Malformed) => x[3] = 0}
DeployInputs ==
    {x \in CallerStr \X Balance \X InitPrograms :
        x[1] \in Malformed => (x[2] = 0 /\ x[3] = Stop)}

Next ==
    \/ Snapshot
    \/ \E t \in Tokens : Revert(t)
    \/ Commit
    \/ \E a \in AddrStr : Basic(a)
    \/ \E a \in AddrStr, i \in Slot : Storage(a, i)
    \/ \E n \in BlockNumber : BlockHash(n)
    \/ \E x \in InsertInputs : InsertAccountInfo(x[1], x[2])
    \/ \E x \in SetBalanceInputs : SetBalance(x[1], x[2])
    \/ \E a \in AddrStr : GetBalance(a)
    \/ \E x \in CallInputs :
          \E p \in ProgramsAt(x[2]) : CallRaw(x[1], x[2], x[3], p)
    \/ \E x \in CallInputs :
          \E p \in ProgramsAt(x[2]) : CallRawCommitting(x[1], x[2], x[3], p)
    \/ \E x \in DeployInputs :
          \E b \in CreatedBy(x[1]) : Deploy(x[1], x[2], b, x[3])

Spec == Init /\ [][Next]_vars

\* EVM::new (evm.rs:52-76) given an environment and a gas limit: the
\* environment is the host's, the gas limit one below or above the intrinsic
\* gas of a transaction.
EnvInit ==
    /\ db = NewMemoryDb
    /\ state = Empty
    /\ journal = << <<>> >>
    /\ depth = 0
    /\ logs = 0
    /\ env = CustomEnv
    /\ gas_limit \in {GasLow, GasHigh}
    /\ checkpoints = Empty
    /\ result = NoResult
    /\ overflow_checks = FALSE
    /\ last = Ret("new", "none", "none")
    /\ taken = Empty
    /\ written = [accounts |-> {}, slots |-> {}]
    /\ ops = 0
    /\ fork = FALSE
    /\ block_hashes = {}
    /\ contracts = NewContracts
    /\ remote_up = TRUE

EnvSpec == EnvInit /\ [][Next]_vars

\* The remote source stops or starts answering: the environment's step.
RemoteChange ==
    /\ Tick
    /\ remote_up' = ~remote_up
    /\ last' = Ret("remote", "none", "none")
    /\ UNCHANGED <<db, state, journal, depth, logs, env, gas_limit, checkpoints,
                   result, overflow_checks, taken, written, fork, block_hashes,
                   contracts>>

\* EVM::new (evm.rs:52-76) with a fork_url: DB::new_fork (database.rs:31-40),
\* an empty cache over the remote source pinned to a block.
ForkInit ==
    /\ db = Empty
    /\ state = Empty
    /\ journal = << <<>> >>
    /\ depth = 0
    /\ logs = 0
    /\ env = DefaultEnv
    /\ gas_limit = GasHigh
    /\ checkpoints = Empty
    /\ result = NoResult
    /\ overflow_checks = FALSE
    /\ last = Ret("new", "none", "none")
    /\ taken = Empty
    /\ written = [accounts |-> {}, slots |-> {}]
    /\ ops = 0
    /\ fork = TRUE
    /\ block_hashes = {}
    /\ contracts = NewContracts
    /\ remote_up \in BOOLEAN

\* The arguments the host of a fork passes: well-formed addresses, an
\* account info with code, calls and deployments without value.
ForkAddrStr == {"0xaa", "0xBB"}
ForkInfoInputs == {AccountInfoNew({0}, 0, {}, {"0x60"})}

ForkNext ==
    \/ Snapshot
    \/ \E t \in Tokens : Revert(t)
    \/ Commit
    \/ \E a \in ForkAddrStr : Basic(a)
    \/ \E a \in ForkAddrStr, i \in Slot : Storage(a, i)
    \/ \E n \in BlockNumber : BlockHash(n)
    \/ \E a \in ForkAddrStr, info \in ForkInfoInputs : InsertAccountInfo(a, info)
    \/ \E a \in ForkAddrStr, v \in Balance : SetBalance(a, v)
    \/ \E a \in ForkAddrStr : GetBalance(a)
    \/ \E a \in Callers, b \in ForkAddrStr :
          \E p \in ProgramsAt(b) : CallRaw(a, b, 0, p)
    \/ \E a \in Callers, b \in ForkAddrStr :
          \E p \in ProgramsAt(b) : CallRawCommitting(a, b, 0, p)
    \/ \E a \in Callers, p \in InitPrograms :
          \E b \in CreatedBy(a) : Deploy(a, 0, b, p)
    \/ RemoteChange

ForkSpec == ForkInit /\ [][ForkNext]_vars

\* ================================================================== executor
\* executor::call_inputs (executor.rs:142-150): CallInputs::new_boxed of the
\* transaction, with is_static set to the flag run_evm was given.
call_inputs(c, is_static) ==
    [caller |-> c.env.caller, target_address |-> c.env.transact_to,
     value |-> c.env.value, is_static |-> is_static]

\* CreateInputs::new_boxed (executor.rs:104-109): built from the transaction
\* alone.  A creation's inputs have no static flag: the frame they start
\* runs its init code as a frame that is not static.
create_inputs(c) ==
    [caller |-> c.env.caller, value |-> c.env.value, is_static |-> FALSE]

\* The inputs of the first frame (executor.rs:100-110).
FirstFrameInputs(c, is_static) ==
    IF c.env.transact_to = "Create" THEN create_inputs(c)
    ELSE call_inputs(c, is_static)

\* The frame of a call (executor.rs:101-103, 113-116): code that runs an
\* SSTORE in a static frame halts there, before the slot is loaded, and the
\* frame's changes are undone; any other frame runs as CallFrame.
StaticCallFrame(c1, inputs, prog) ==
    IF /\ inputs.is_static
       /\ prog.op = "sstore"
       /\ c1.state[inputs.target_address].info.code # NoCode
    THEN [state |-> c1.state, db |-> c1.db,
          outcome |-> Outcome("Halt", "StateChangeDuringStaticCall")]
    ELSE CallFrame(c1, prog)

\* What the first frame journals inside its checkpoint.
FrameEntries(c1, target, prog) ==
    (IF c1.state[target].touched THEN <<>> ELSE <<AccountTouched(target)>>)
    \o (IF c1.env.value > 0
        THEN <<[kind |-> "BalanceTransfer", address |-> target]>> ELSE <<>>)
    \o (IF prog.op = "sstore"
        THEN <<[kind |-> "StorageChange", address |-> target]>> ELSE <<>>)

\* The context after the first frame (executor.rs:113-124): the frame's
\* checkpoint has added an entry set, which a frame that succeeds keeps
\* (checkpoint_commit) and one that reverts or halts has had undone and
\* removed (checkpoint_revert).  The depth is back where it was.
AfterFrame(c1, target, prog, x) ==
    [c1 EXCEPT !.db = x.db, !.state = x.state,
               !.journal = IF x.outcome.status = "Success"
                           THEN Append(c1.journal, FrameEntries(c1, target, prog))
                           ELSE c1.journal]

\* The frame of a call and the frame of a creation, with the context each
\* leaves (executor.rs:100-116).
CallFrameOf(c1, is_static, prog) ==
    The({[ctx |-> AfterFrame(c1, c1.env.transact_to, prog, x), outcome |-> x.outcome] :
            x \in {StaticCallFrame(c1, FirstFrameInputs(c1, is_static), prog)}})

CreateFrameOf(c1, created, prog) ==
    The({[ctx |-> AfterFrame(c1, created, prog, x), outcome |-> x.outcome] :
            x \in {CreateFrame(c1, created, prog)}})

\* The first frame of run_evm (executor.rs:98-116): the target is loaded,
\* for a creation after the deployer's nonce is bumped.
FirstFrame(cd, is_static, created, prog) ==
    IF DepthExceedsLimit(cd.depth)
    THEN [ctx |-> cd, outcome |-> Outcome("Halt", "CallTooDeep")]
    ELSE IF cd.env.transact_to = "Create"
    THEN The({CreateFrameOf(c1, created, prog) :
                c1 \in {LoadAccount([cd EXCEPT !.state[cd.env.caller].info.nonce = @ + 1],
                                    created)}})
    ELSE The({CallFrameOf(c1, is_static, prog) :
                c1 \in {LoadAccount(cd, cd.env.transact_to)}})

\* executor::output (executor.rs:156-193): the outcome, the beneficiary
\* touched by its reward (executor.rs:132-134); the journal is not finalized,
\* the transaction stays open.
ExecutorOutput(f) ==
    [err |-> "none", ctx |-> Touch(f.ctx, Coinbase), outcome |-> f.outcome]

\* The context a run leaves when the remote source fails it after validation
\* (the "?" of executor.rs:88-114): the beneficiary was not loaded; or the
\* target was not; or an SSTORE could not load its slot, inside the frame's
\* checkpoint, which then stays open.
FailedRun(c, cd, is_static, created, prog) ==
    IF LoadMisses(c, Coinbase) THEN c
    ELSE IF cd.env.transact_to = "Create"
    THEN [cd EXCEPT !.state[cd.env.caller].info.nonce = @ + 1]
    ELSE IF LoadMisses(c, cd.env.transact_to) /\ cd.env.transact_to # cd.env.caller
    THEN cd
    ELSE The({[Checkpoint(c1) EXCEPT !.state = CallFrame(c1, Stop).state] :
                c1 \in {LoadAccount(cd, cd.env.transact_to)}})

\* The program the first frame gets to run: a static frame stops at an
\* SSTORE before anything is loaded for it.
Reached(c, is_static, prog) ==
    IF FirstFrameInputs(c, is_static).is_static /\ prog.op = "sstore"
    THEN [prog EXCEPT !.op = "halt"] ELSE prog

\* executor::run_evm (executor.rs:54-140).  Each "?" returns the error and
\* leaves the context as the steps before it made it: untouched by
\* validation of the environment and of the gas, with the caller loaded by
\* validation against the state.
RunEvm(c, is_static, created, prog) ==
    The({IF verr = "none" /\ ~(Down /\ RunMisses(c, created, Reached(c, is_static, prog)))
         THEN ExecutorOutput(FirstFrame(DeductCaller(LoadAccounts(cv)),
                                        is_static, created, prog))
         ELSE IF verr = "none"
         THEN [err |-> "Database",
               ctx |-> FailedRun(cv, DeductCaller(LoadAccounts(cv)),
                                 is_static, created, prog),
               outcome |-> NoResult]
         ELSE IF verr \in {"RejectCallerWithCode", "NonceMismatch", "LackOfFundForMaxFee"}
         THEN [err |-> verr, ctx |-> cv, outcome |-> NoResult]
         ELSE [err |-> verr, ctx |-> c, outcome |-> NoResult] :
            verr \in {Validation(c)},
            cv \in {IF Down /\ LoadMisses(c, c.env.caller) THEN c
                    ELSE LoadAccount(c, c.env.caller)}})

\* CallEvm as it would be if a run that fails left the caller a new, empty
\* context.
CallEvmDropsContext(evm_context, is_static, created, prog) ==
    The({[result |-> [err |-> r.err, outcome |-> r.outcome],
          context |-> IF r.err # "none" THEN NewContext ELSE r.ctx] :
            r \in {RunEvm(evm_context, is_static, created, prog)}})

\* executor::call_evm (executor.rs:20-51): the engine is built around the
\* context, run, and the pair of run_evm's result and the engine's context
\* is returned, with or without tracing.
CallEvm(evm_context, is_static, created, prog) ==
    The({[result |-> [err |-> r.err, outcome |-> r.outcome], context |-> r.ctx] :
            r \in {RunEvm(evm_context, is_static, created, prog)}})

\* A caller of call_evm: the context it holds is passed with the
\* transaction's environment, and the context returned is the one it holds
\* afterwards; the result is kept as returned.
CallEvmStep(is_static, caller, transact_to, value, created, prog) ==
    /\ Tick
    /\ \E r \in {CallEvm([Ctx EXCEPT !.env = BuildTestEnv(caller, transact_to,
                                                          NoCode, value)],
                         is_static, created, prog)} :
          /\ SetCtx(r.context)
          /\ result' = r.result.outcome
          /\ last' = IF r.result.err = "none"
                     THEN Ret(IF is_static THEN "call_evm_static" ELSE "call_evm",
                              "none", r.result.outcome.status)
                     ELSE Ret(IF is_static THEN "call_evm_static" ELSE "call_evm",
                              "RuntimeError", r.result.err)
    /\ taken' = Seen(taken, "run")
    /\ UNCHANGED <<gas_limit, checkpoints, overflow_checks, remote_up, fork,
                   block_hashes, written, contracts>>

\* The instances call_evm is run on: an in-memory database or a remote
\* source that answers or does not, a gas limit below or above the intrinsic
\* gas of a transaction.
ExecInit ==
    /\ db = Empty
    /\ state = Empty
    /\ journal = << <<>> >>
    /\ depth = 0
    /\ logs = 0
    /\ env = DefaultEnv
    /\ gas_limit \in {GasLow, GasHigh}
    /\ checkpoints = Empty
    /\ result = NoResult
    /\ overflow_checks = FALSE
    /\ last = Ret("new", "none", "none")
    /\ taken = Empty
    /\ written = [accounts |-> {}, slots |-> {}]
    /\ ops = 0
    /\ fork \in BOOLEAN
    /\ block_hashes = {}
    /\ contracts = NewContracts
    /\ remote_up \in {r \in BOOLEAN : ~fork => r}

\* The transactions handed to call_evm: calls of either address and
\* creations of the other address, static or not.
ExecTargets == Addr \cup {"Create"}
ExecProgramsAt(to) ==
    IF to = "Create" THEN InitPrograms ELSE CodeRun(ReadInfo(Ctx, to).code)

ExecNext ==
    \/ Snapshot
    \/ \E a \in Addr, info \in InfoInputs : InsertAccountInfo(a, info)
    \/ \E s \in BOOLEAN, a \in Callers, t \in ExecTargets, v \in Balance :
          \E p \in ExecProgramsAt(t), b \in Addr \ {a} :
             CallEvmStep(s, a, t, v, b, p)
    \/ fork /\ RemoteChange

ExecSpec == ExecInit /\ [][ExecNext]_vars

\* ============================================================== code by hash
\* EmptyDBWrapper::code_by_hash_ref (empty_db_wrapper.rs:23-25): EmptyDB
\* answers the empty code for every hash; the error type is Infallible.
EmptyCodeByHashRef(code_hash) == NoCode

\* DB::code_by_hash (database.rs:68-73) over the cache: a hash the contracts
\* hold gives its code; one they do not hold is asked of the backing
\* database.  The empty database's answer is kept in the contracts and
\* returned; the remote source has no lookup by hash and panics.
DbCodeByHash(cs, code_hash) ==
    IF code_hash \in DOMAIN cs
    THEN [err |-> "none", cause |-> "none", code |-> cs[code_hash], contracts |-> cs]
    ELSE IF fork
    THEN [err |-> "PanicException", cause |-> "Should not be called. Code is already loaded",
          code |-> NoCode, contracts |-> cs]
    ELSE [err |-> "none", cause |-> "none", code |-> EmptyCodeByHashRef(code_hash),
          contracts |-> Put(cs, code_hash, EmptyCodeByHashRef(code_hash))]

\* A lookup of the code of a hash in the instance's database.
CodeByHash(code_hash) ==
    /\ Tick
    /\ \E r \in {DbCodeByHash(contracts, code_hash)} :
          /\ contracts' = r.contracts
          /\ last' = RetVal("code_by_hash", r.err, r.cause, r.code)
    /\ UNCHANGED <<db, state, journal, depth, logs, env, gas_limit, checkpoints,
                   result, overflow_checks, taken, written, fork, block_hashes,
                   remote_up>>

\* The hashes looked up: of the empty byte sequence, of the code the hosts
\* insert and deploy, and of a code no account has.
Hashes == {KeccakEmpty, Hash("0x60"), "keccak(0xfe)"}

\* EVM::new (evm.rs:52-76) with or without a fork_url.
CodeInit ==
    /\ db = Empty
    /\ state = Empty
    /\ journal = << <<>> >>
    /\ depth = 0
    /\ logs = 0
    /\ env = DefaultEnv
    /\ gas_limit = GasHigh
    /\ checkpoints = Empty
    /\ result = NoResult
    /\ overflow_checks = FALSE
    /\ last = Ret("new", "none", "none")
    /\ taken = Empty
    /\ written = [accounts |-> {}, slots |-> {}]
    /\ ops = 0
    /\ fork \in BOOLEAN
    /\ block_hashes = {}
    /\ contracts = NewContracts
    /\ remote_up = TRUE

CodeNext ==
    \/ \E a \in Addr, info \in InfoInputs : InsertAccountInfo(a, info)
    \/ \E a \in Addr : Basic(a)
    \/ \E h \in Hashes : CodeByHash(h)
    \/ \E a \in Callers, b \in Addr :
          \E p \in ProgramsAt(b) : CallRawCommitting(a, b, 0, p)
    \/ \E a \in Callers, p \in InitPrograms :
          \E b \in CreatedBy(a) : Deploy(a, 0, b, p)

CodeSpec == CodeInit /\ [][CodeNext]_vars

\* ========================================================== result projection
\* The gas figures of an engine outcome, as far as the projection reads them.
MaxRefund == 1
GasUsed == {InitialTxGas, InitialTxGas + 1}

\* revm's SuccessReason, OutOfGasError and HaltReason: the reasons the
\* projection names (types/execution_result.rs:27-58) and, for a halt, some
\* it does not (other builds' and later versions' reasons).
SuccessReasons == {"Stop", "Return", "SelfDestruct"}
OutOfGasErrors == {"Basic", "MemoryLimit", "Memory", "Precompile", "InvalidOperand"}
NamedHaltReasons ==
    {"OpcodeNotFound", "InvalidFEOpcode", "InvalidJump", "NotActivated",
     "StackUnderflow", "StackOverflow", "OutOfOffset", "CreateCollision",
     "PrecompileError", "NonceOverflow", "CreateContractSizeLimit",
     "CreateContractStartingWithEF", "CreateInitCodeSizeLimit",
     "OverflowPayment", "StateChangeDuringStaticCall",
     "CallNotAllowedInsideStatic", "OutOfFunds", "CallTooDeep"}
OtherHaltReasons == {"FailedDeposit", "EofAuxDataOverflow"}
HaltReasons ==
    [halt : {"OutOfGas"}, out_of_gas : OutOfGasErrors]
        \cup [halt : NamedHaltReasons \cup OtherHaltReasons, out_of_gas : {"none"}]

\* revm's ExecutionResult: Success { reason, gas_used, gas_refunded, .. },
\* Revert { gas_used, .. } and Halt { reason, gas_used }.
EngineResults ==
    [status : {"Success"}, reason : SuccessReasons, gas_used : GasUsed,
     gas_refunded : 0..MaxRefund]
        \cup [status : {"Revert"}, gas_used : GasUsed]
        \cup [status : {"Halt"}, reason : HaltReasons, gas_used : GasUsed]

\* HaltTag as it would be if a reason the projection does not name were
\* given its own name.
HaltTagNamesAll(reason) ==
    IF reason.halt = "OutOfGas" THEN "OutOfGas:" \o reason.out_of_gas
    ELSE reason.halt

\* The tag of a halt reason (types/execution_result.rs:33-60).
HaltTag(reason) ==
    IF reason.halt = "OutOfGas" THEN "OutOfGas:" \o reason.out_of_gas
    ELSE IF reason.halt \in NamedHaltReasons THEN reason.halt
    ELSE "Unknown"

\* impl From<RevmExecutionResult> for ExecutionResult
\* (types/execution_result.rs:21-73)
ExecutionResultFrom(r) ==
    [is_success |-> r.status = "Success",
     is_halt |-> r.status = "Halt",
     reason |-> CASE r.status = "Success" -> r.reason
                  [] r.status = "Revert" -> "Revert"
                  [] r.status = "Halt" -> HaltTag(r.reason),
     gas_used |-> r.gas_used,
     gas_refunded |-> IF r.status = "Success" THEN r.gas_refunded ELSE 0]

\* EVM::result (evm.rs:215-218): None, or the projection of the result held.
\* An Option is the empty set (None) or a singleton (Some).
ResultGetter ==
    /\ Tick
    /\ last' = RetVal("result", "none", "none",
                      IF result = NoResult THEN {} ELSE {ExecutionResultFrom(result)})
    /\ UNCHANGED <<db, state, journal, depth, logs, env, gas_limit, checkpoints,
                   result, overflow_checks, taken, written, fork, block_hashes,
                   remote_up, contracts>>

\* An instance holding any result the engine can have left, or none.
ProjInit ==
    /\ db = NewMemoryDb
    /\ state = Empty
    /\ journal = << <<>> >>
    /\ depth = 0
    /\ logs = 0
    /\ env = DefaultEnv
    /\ gas_limit = GasHigh
    /\ checkpoints = Empty
    /\ result \in EngineResults \cup {NoResult}
    /\ overflow_checks = FALSE
    /\ last = Ret("new", "none", "none")
    /\ taken = Empty
    /\ written = [accounts |-> {}, slots |-> {}]
    /\ ops = 0
    /\ fork = FALSE
    /\ block_hashes = {}
    /\ contracts = NewContracts
    /\ remote_up = TRUE

ProjNext == ResultGetter

ProjSpec == ProjInit /\ [][ProjNext]_vars

\* ==================================================================== claims
\* The operations that run a transaction; a step is one of them when the
\* operation it records is.
RunOps == {"call_raw", "call_raw_committing", "deploy"}
RunStep == last'.op \in RunOps /\ last'.err # "TypeError"

\* The held tokens (checkpoint_ids), and the fields a failed operation is
\* said to leave alone.
Held == DOMAIN checkpoints
HostUnchanged ==
    UNCHANGED <<db, state, journal, depth, logs, env, checkpoints, fork,
                block_hashes, contracts>>

\* C1: every write the host makes between snapshot() returning T and
\* revert(T) is undone by the revert: with nothing but host reads and writes
\* since T was taken, what get_balance/basic/storage return after a
\* successful revert(T) is what they returned when T was taken.
C1_RevertUndoesHostWrites ==
    [][\A t \in Tokens :
          (t \in DOMAIN taken /\ taken[t].since = {} /\ Revert(t) /\ last'.err = "none")
             => View(Ctx)' = taken[t].view]_vars

\* C2: a call or deployment that fails in validation touches no state: what
\* the host reads of every account and slot, and the held tokens, are after
\* the failed operation what they were before it.
C2_ValidationFailureTouchesNothing ==
    [][(RunStep /\ last'.cause \in ValidationErrors)
          => (View(Ctx)' = View(Ctx) /\ checkpoints' = checkpoints)]_vars

\* C3: with T1 and the later T2 both held and only snapshots since T1, a
\* successful revert(T1) removes both tokens from the held checkpoints.
C3_RevertInvalidatesLaterTokens ==
    [][\A t1, t2 \in Tokens :
          (/\ t1 \in Held /\ t2 \in Held /\ t1.journal_i < t2.journal_i
           /\ taken[t1].since \subseteq {"snapshot"}
           /\ Revert(t1) /\ last'.err = "none")
             => (t1 \notin DOMAIN checkpoints' /\ t2 \notin DOMAIN checkpoints')]_vars

\* C4: after commit() with n >= 1 snapshots outstanding no token is held and
\* journal_depth is 0; revert(T) for a token issued before a commit fails
\* with KeyError 'Invalid checkpoint' and changes nothing.
C4_CommitFinality ==
    [][/\ (Commit /\ Held # {} /\ depth = Cardinality(Held))
             => (DOMAIN checkpoints' = {} /\ depth' = 0)
       /\ \A t \in Tokens :
             (t \in DOMAIN taken /\ "commit" \in taken[t].since /\ Revert(t))
                => (last'.err = "KeyError" /\ HostUnchanged)]_vars

\* C5: a token taken before a call or deployment is still held after it, and
\* revert(T) then succeeds and restores what was readable when T was taken.
C5_SnapshotSurvivesRun ==
    [][\A t \in Tokens :
          (t \in DOMAIN taken /\ taken[t].since = {"run"})
             => /\ t \in Held
                /\ Revert(t) => (last'.err = "none" /\ View(Ctx)' = taken[t].view)]_vars

\* C6: a call_raw that ran (succeeded, reverted or halted) leaves what
\* get_balance, basic and storage return for every address and slot as it was.
C6_CallRawHasNoPersistentEffect ==
    [][(last'.op = "call_raw" /\ last'.cause \notin ValidationErrors)
          => View(Ctx)' = View(Ctx)]_vars

\* C7: with T1, then T2, and only host reads and writes otherwise, revert(T2)
\* succeeds, restores what was readable when T2 was taken and keeps T1 held;
\* revert(T1) after it succeeds, restores what was readable when T1 was
\* taken and leaves journal_depth 0 and no token held.
C7_NestedRevertIsLifo ==
    [][\A t1, t2 \in Tokens :
          /\ (/\ Held = {t1, t2} /\ t1.journal_i < t2.journal_i
              /\ taken[t1].since = {"snapshot"} /\ taken[t2].since = {}
              /\ Revert(t2))
                => /\ last'.err = "none"
                   /\ View(Ctx)' = taken[t2].view
                   /\ DOMAIN checkpoints' = {t1}
          /\ (/\ Held = {t1} /\ taken[t1].since = {"snapshot", "revert"}
              /\ Revert(t1))
                => /\ last'.err = "none"
                   /\ View(Ctx)' = taken[t1].view
                   /\ depth' = 0
                   /\ DOMAIN checkpoints' = {}]_vars

\* C8: commit() never fails, changes nothing the host reads, and with
\* journal_depth 0 leaves journal_depth at 0.
C8_CommitIsIdempotent ==
    [][Commit => /\ last'.err = "none"
                 /\ View(Ctx)' = View(Ctx)
                 /\ (depth = 0 => depth' = 0)]_vars

\* C9: revert(T) fails with OverflowError exactly when no token is held, with
\* KeyError when a token is held but T is not; either failure changes nothing.
C9_RevertErrorConditions ==
    [][\A t \in Tokens :
          Revert(t) => /\ (last'.err = "OverflowError") <=> (Held = {})
                       /\ (Held # {} /\ t \notin Held) => last'.err = "KeyError"
                       /\ last'.err \in {"OverflowError", "KeyError"} => HostUnchanged]_vars

C11_SetBalanceRoundTrip ==
    [][last'.op = "set_balance"
          => \A a \in Addr, v \in Balance :
                SetBalance(a, v) => ReadInfo(Ctx, a)'.balance = v]_vars

\* A balance has just been set after a call and under a held checkpoint.
C11_BalanceSetAfterCall ==
    /\ last.op = "set_balance"
    /\ depth = 1
    /\ result.status = "Success"
    /\ \E a \in Addr : ReadInfo(Ctx, a).balance = MaxBal

\* C12: in every reachable state, insert_account_info(a, info) makes basic(a)
\* return info, and get_balance(a) return info.balance.
C12_InsertAccountInfoRoundTrip ==
    [][last'.op = "insert_account_info"
          => \A a \in Addr, info \in InfoInputs :
                InsertAccountInfo(a, info) => ReadInfo(Ctx, a)' = info]_vars

\* C13: insert_account_info(a, info) leaves what storage returns for every
\* address and index, and what basic returns for every other address.
C13_InsertAccountInfoKeepsStorage ==
    [][last'.op = "insert_account_info"
          => /\ \A a \in Addr, i \in Slot :
                   ReadStorage(Ctx, a, i)' = ReadStorage(Ctx, a, i)
             /\ \A a \in Addr, info \in InfoInputs :
                   InsertAccountInfo(a, info)
                      => \A b \in Addr \ {a} : ReadInfo(Ctx, b)' = ReadInfo(Ctx, b)]_vars

\* An account info has just been inserted while some slot holds a value.
C13_InsertedOverStorage ==
    /\ last.op = "insert_account_info"
    /\ \E a \in Addr, i \in Slot : ReadStorage(Ctx, a, i) # 0

\* C18: snapshot() never fails, returns the token (log count, journal
\* length) of the moment of the call, raises journal_depth by one, adds
\* exactly one token to the held checkpoints, and leaves every account's
\* balance, nonce, code and storage as they were.
C18_SnapshotIsPure ==
    [][last'.op = "snapshot"
          => /\ last'.err = "none"
             /\ [log_i |-> logs, journal_i |-> Len(journal)] \in Held'
             /\ depth' = depth + 1
             /\ Cardinality(Held') = Cardinality(Held) + 1
             /\ View(Ctx)' = View(Ctx)]_vars

\* C14: on an in-memory instance basic and storage of an address never fail
\* (only a string that is no address is refused); basic of an address never
\* written returns the zero-valued AccountInfo and storage of a slot never
\* written returns 0, whatever was read before.
C14_DefaultReads ==
    /\ (last.op \in {"basic", "storage"} /\ last.err # "none")
          => last = BadAddress(last.op)
    /\ \A a \in Addr \ written.accounts : ReadInfo(Ctx, a) = DefaultInfo
    /\ \A a \in Addr, i \in Slot :
          <<a, i>> \notin written.slots => ReadStorage(Ctx, a, i) = 0

\* An address never written has just been read again, after a write to
\* another address and a successful run, its account and slot being cached.
C14_ReadAgainUnwritten ==
    /\ last.op = "basic"
    /\ result.status = "Success"
    /\ written.accounts # {}
    /\ \E a \in Addr \ written.accounts :
          /\ a \in DOMAIN state
          /\ a \in DOMAIN db
          /\ DOMAIN db[a].storage # {}

\* C19: an operation given a malformed address string (basic, storage,
\* insert_account_info, set_balance, get_balance, call_raw,
\* call_raw_committing, deploy) fails with TypeError and leaves the store,
\* the journal, the environment, the held checkpoints and the last result
\* as they were.
C19_MalformedAddressFailsFast ==
    [][\A str \in Malformed :
          (\/ last'.op = "basic" /\ Basic(str)
           \/ last'.op = "get_balance" /\ GetBalance(str)
           \/ last'.op = "storage" /\ \E i \in Slot : Storage(str, i)
           \/ /\ last'.op = "insert_account_info"
              /\ \E info \in InfoInputs : InsertAccountInfo(str, info)
           \/ last'.op = "set_balance" /\ \E v \in Balance : SetBalance(str, v)
           \/ /\ last'.op = "call_raw"
              /\ \E other \in AddrStr, v \in Balance, p \in Programs :
                    CallRaw(str, other, v, p) \/ CallRaw(other, str, v, p)
           \/ /\ last'.op = "call_raw_committing"
              /\ \E other \in AddrStr, v \in Balance, p \in Programs :
                    \/ CallRawCommitting(str, other, v, p)
                    \/ CallRawCommitting(other, str, v, p)
           \/ /\ last'.op = "deploy"
              /\ \E v \in Balance, p \in InitPrograms, b \in Addr :
                    Deploy(str, v, b, p))
             => (last'.err = "TypeError" /\ HostUnchanged /\ result' = result)]_vars

\* An operation has just refused a malformed address while accounts were
\* cached and loaded, a checkpoint was held and a result was recorded.
C19_RefusedOverLiveState ==
    /\ last.err = "TypeError"
    /\ db # Empty
    /\ state # Empty
    /\ checkpoints # Empty
    /\ result # NoResult

CachedAccounts == DOMAIN db
CachedSlots == {x \in Addr \X Slot : ~DbStorageMisses(db, x[1], x[2])}

\* C15: on a remote-backed instance a key never written locally is asked of
\* the remote source at most once and every read of it returns the same
\* value: once cached it stays cached, and what a read returns does not
\* change, across calls, deploys, snapshots and reverts.
C15_RemoteReadsAreCached ==
    [][/\ \A a \in CachedAccounts \cap (Addr \ written'.accounts) :
             /\ a \in CachedAccounts'
             /\ ReadInfo(Ctx, a)' = ReadInfo(Ctx, a)
       /\ \A x \in CachedSlots \ written'.slots :
             /\ x \in CachedSlots'
             /\ ReadStorage(Ctx, x[1], x[2])' = ReadStorage(Ctx, x[1], x[2])]_vars

\* The read operations that ask the backing database for a missing key.
ReadOps == {"basic", "get_balance", "storage", "block_hash"}

C17_MissesAnsweredByRemote ==
    /\ \A a \in Addr :
          LoadMisses(Ctx, a) => ReadInfo(Ctx, a) = RemoteBasicRef(a)
    /\ \A a \in Addr, i \in Slot :
          DbStorageMisses(db, a, i) => ReadStorage(Ctx, a, i) = RemoteStorageRef(a, i)
    /\ \A n \in BlockNumber :
          n \notin block_hashes => BlockHashRef(n) = RemoteBlockHashRef(n)

\* The code and the storage a host reads of the accounts, before committing.
CodeAndStorage(c) ==
    [a \in Addr |-> [code |-> ReadInfo(c, a).code,
                     storage |-> IF a \in DOMAIN c.state THEN c.state[a].storage
                                 ELSE Empty]]

\* C21: a run requested with static=true carries the static flag in the
\* inputs of its first frame, so that no account's code and no storage slot
\* is changed by it, and code that attempts a change gives an outcome with
\* status Halt, returned as a value and not raised.
C21_StaticRunMutatesNothing ==
    [][(last'.op = "call_evm_static" /\ last'.err = "none")
          => /\ FirstFrameInputs(Ctx', TRUE).is_static
             /\ CodeAndStorage(Ctx)' = CodeAndStorage(Ctx)
             /\ \A a \in Callers, t \in Addr, v \in Balance, b \in Addr :
                   CallEvmStep(TRUE, a, t, v, b, [op |-> "sstore", slot |-> 0, value |-> 1])
                      => result'.status = "Halt"]_vars

\* C23: every AccountInfo constructed with code and no code hash of its own
\* has the content hash of that code as its code hash, and one constructed
\* with neither has the hash of the empty byte sequence: so has every info a
\* host constructs and hands to insert_account_info.
C23_CodeHashIsHashOfCode ==
    [][last'.op = "insert_account_info"
          => \A a \in Addr, b \in Balance, c \in {{}, {"0x60"}} :
                InsertAccountInfo(a, AccountInfoNew({b}, 0, {}, c))
                   => AccountInfoNew({b}, 0, {}, c).code_hash
                         = Hash(AccountInfoNew({b}, 0, {}, c).code)]_vars

\* The hashes of the codes of the accounts the instance stores.
StoredCodeHashes ==
    {Hash(db[a].info.code) : a \in DOMAIN db}
        \cup {Hash(state[a].info.code) : a \in DOMAIN state}

\* C22: a lookup of the hash of the empty byte sequence succeeds and returns
\* the empty byte sequence, and a lookup of a hash that no stored account's
\* code has fails with a not-found error, in every state of an in-memory or
\* remote-backed instance.
C22_CodeByHashFindsOrFails ==
    [][last'.op = "code_by_hash"
          => \A h \in Hashes :
                CodeByHash(h)
                   => /\ h = KeccakEmpty
                         => (last'.err = "none" /\ last'.val = NoCode)
                      /\ (h # KeccakEmpty /\ h \notin StoredCodeHashes)
                         => last'.cause = "NotFound"]_vars

\* The tags of the projection: the closed vocabulary.
Vocabulary ==
    SuccessReasons \cup {"Revert", "Unknown"} \cup NamedHaltReasons
        \cup {"OutOfGas:" \o e : e \in OutOfGasErrors}

\* C24: the projection of every engine outcome succeeds and gives one tag of
\* the closed vocabulary: the success reason for a success, "Revert" for a
\* revert, the reason's name for a halt reason the projection names and
\* "Unknown" for any other; is_success and is_halt are never both true, and
\* gas_refunded is 0 unless the outcome is a success.
C24_ProjectionIsTotal ==
    (last.op = "result" /\ result # NoResult)
        => /\ last.err = "none"
           /\ Cardinality(last.val) = 1
           /\ \A p \in last.val :
                 /\ p.reason \in Vocabulary
                 /\ result.status = "Success"
                       => (p.reason = result.reason /\ p.reason \in SuccessReasons)
                 /\ result.status = "Revert" => p.reason = "Revert"
                 /\ result.status = "Halt"
                       => /\ result.reason.halt \in NamedHaltReasons
                             => p.reason = result.reason.halt
                          /\ result.reason.halt \in OtherHaltReasons
                             => p.reason = "Unknown"
                          /\ p.reason \notin SuccessReasons \cup {"Revert"}
                 /\ ~(p.is_success /\ p.is_halt)
                 /\ p.is_success <=> result.status = "Success"
                 /\ p.is_halt <=> result.status = "Halt"
                 /\ result.status # "Success" => p.gas_refunded = 0
                 /\ p.gas_used = result.gas_used

\* The result getter has projected a halt whose reason the projection does
\* not name.
C24_UnnamedHaltProjected ==
    /\ last.op = "result"
    /\ result # NoResult
    /\ result.status = "Halt"
    /\ result.reason.halt \in OtherHaltReasons
    /\ \E p \in last.val : p.reason = "Unknown" /\ p.is_halt

\* C25: after any sequence of snapshot, revert, commit, call_raw,
\* call_raw_committing and deploy, succeeding or failing, journal_depth is
\* the number of tokens in checkpoint_ids, every held token's journal_i is at
\* most journal_len, and the token a snapshot returns is none of the tokens
\* held when it is taken.
C25_CheckpointBookkeeping ==
    [][/\ depth' = Cardinality(Held')
       /\ \A t \in Held' : t.journal_i <= Len(journal')
       /\ last'.op = "snapshot"
             => [log_i |-> logs, journal_i |-> Len(journal)] \notin Held]_vars

\* One sequence of journal entries begins with another.
IsPrefix(s, t) == Len(s) <= Len(t) /\ SubSeq(t, 1, Len(s)) = s

\* C26: call_evm returns the context it was passed on every path, whether
\* the run gives an outcome or fails in validation or on the database: the
\* backing database is the same and holds every account and slot it held,
\* the journaled state holds every account it held, every entry of the
\* journal is still there, and the environment is the transaction's.
C26_ContextHandedBack ==
    [][last'.op \in {"call_evm", "call_evm_static"}
          => /\ fork' = fork
             /\ contracts' = contracts
             /\ \A a \in DOMAIN db :
                   /\ a \in DOMAIN db'
                   /\ db'[a].info = db[a].info
                   /\ \A i \in DOMAIN db[a].storage :
                         /\ i \in DOMAIN db'[a].storage
                         /\ db'[a].storage[i] = db[a].storage[i]
             /\ DOMAIN state \subseteq DOMAIN state'
             /\ Len(journal) <= Len(journal')
             /\ \A k \in 1..Len(journal) : IsPrefix(journal[k], journal'[k])
             /\ depth' >= depth
             /\ env'.caller \in Callers
             /\ env'.tx_gas_limit = gas_limit]_vars

\* A run has just failed on the remote source of a fork whose context held
\* cached accounts, loaded accounts and an open checkpoint.
C26_RunFailedOverLiveContext ==
    /\ last.op \in {"call_evm", "call_evm_static"}
    /\ last.err = "RuntimeError"
    /\ last.cause = "Database"
    /\ fork
    /\ db # Empty
    /\ state # Empty
    /\ Held # {}
    /\ depth > 0

\* C27: the result getter holds none until the first call or deployment, no
\* other operation changes what it holds, and after every call_raw,
\* call_raw_committing or deploy it holds the outcome of that transaction:
\* Success when the operation returned, the Revert or Halt the operation
\* raised, never the outcome an earlier transaction left.
C27_ResultIsOfLastTransaction ==
    [][/\ last'.op \notin RunOps => result' = result
       /\ RunStep
             => /\ result'.status \in {"Success", "Revert", "Halt"}
                /\ last'.err = "none" => result'.status = "Success"
                /\ last'.err # "none" => result'.status = last'.cause]_vars

====
